---------------------------- MODULE Spec2Model ----------------------------
(***************************************************************************)
(* Model of internal/virter/vm.go: the VM lifecycle operations VMRun, VMRm *)
(* and VMCommit (with the shutdown monitor vmShutdown) and the provisioning*)
(* executor (getIPs, VMExecShell, VMExecRsync, VMExecDocker), run against  *)
(* a libvirt backend that is modelled by the resources it holds.           *)
(*                                                                         *)
(* An operation is one invocation of the program.  It advances one backend *)
(* call at a time (pc names the call it is about to make), and every       *)
(* backend call may fail.  calls is the order in which the state-changing  *)
(* backend calls of the current operation were made.                       *)
(***************************************************************************)
EXTENDS Naturals, Sequences, FiniteSets, TLC

(* Bounds of the model. *)
MaxOps == 3
MaxSnapshots == 1
MaxNoise == 1
MaxTargets == 2
MaxIDs == 3
MaxResize == 2

(* The VM descriptors operations are invoked with: VMName and VMID. *)
VMConfigs ==
    { [VMName |-> "a", VMID |-> 1], [VMName |-> "b", VMID |-> 2] }

VMNames == { c.VMName : c \in VMConfigs }

(* A MAC derivation that keeps the two low bytes of the VM ID only. *)
qemuMACLow16(vmID) ==
    << 82, 84, 0, 0, (vmID \div 256) % 256, vmID % 256 >>

(* qemuMAC: the fixed QEMU prefix 52:54:00 followed by the three low bytes *)
(* of the VM ID, most significant first.                                   *)
qemuMAC(vmID) ==
    << 82, 84, 0, (vmID \div 65536) % 256, (vmID \div 256) % 256, vmID % 256 >>

ciDataVolumeName(name) == name \o "-cidata"

scratchVolumeName(name) == name \o "-scratch"

NoDomain == [state |-> "absent", mac |-> << >>]

VARIABLES
    domains,      \* backend: VM name -> [state, mac]
    snapshots,    \* backend: VM name -> number of snapshots of the domain
    volumes,      \* backend: names of the volumes in the storage pool
    dhcp,         \* backend: MACs with a DHCP host entry on the network
    op,           \* the operation in progress or last finished
    pc,           \* the backend call the operation makes next
    vmName,       \* vmName / vmConfig.VMName of the operation
    flag,         \* waitSSH of VMRun, shutdown of VMCommit
    active,       \* local "active" of vmRmExceptBoot, VMCommit, vmShutdown
    persistent,   \* local "persistent" of vmRmExceptBoot
    todo,         \* snapshots listed by rmSnapshots and not yet deleted
    err,          \* the error the operation returned ("" is nil)
    calls,        \* state-changing backend calls of the operation, in order
    events,       \* the lifecycle event channel of vmShutdown
    subscribed,   \* whether the event channel is open
    timeout,      \* the channel of afterNotifier.After: off, armed, fired
    noise,        \* other lifecycle events emitted during this wait
    first,        \* the order, in this wait, of the target's stopped event
                  \* and the deadline
    prev,         \* the operation that finished before the current one
    nops,         \* operations started so far
    targets,      \* vmNames of the provisioning executor
    ips,          \* addresses resolved by getIPs, in order
    tasks,        \* the errgroup's tasks, in launch order
    gerr,         \* the errgroup's error: the first task to fail, 0 for none
    fault,        \* whether the operation returned because the backend failed
    vmIDs,        \* VM IDs that qemuMAC is applied to, in order
    macs,         \* the MACs that qemuMAC returned for vmIDs, in order
    term,         \* the mode of the local terminal
    state,        \* VMSSHSession: the terminal state MakeRaw returned
    client,       \* VMSSHSession: the SSH connection: none, open, closed
    sigChan,      \* VMSSHSession: the signal channel: none, open, closed
    pending,      \* signals in the buffer of sigChan (capacity 1)
    notified,     \* whether sigChan is registered with signal.Notify
    listener,     \* the resize goroutine: none, ranging, handling, exited
    werr,         \* VMSSHSession: the error session.Wait returned
    winch         \* SIGWINCH signals the process got so far

backendVars == << domains, snapshots, volumes, dhcp >>
localVars == << active, persistent, todo >>
monitorVars == << events, subscribed, timeout, noise, first >>
execVars == << targets, ips, tasks, gerr >>
sessionVars == << term, state, client, sigChan, pending, notified, listener,
                  werr, winch >>
auxVars == << vmIDs, macs, sessionVars >>
opVars == << op, vmName, flag, prev, nops, execVars, auxVars >>
vars == << domains, snapshots, volumes, dhcp, op, pc, vmName, flag, active,
           persistent, todo, err, calls, events, subscribed, timeout, noise,
           first, prev, nops, targets, ips, tasks, gerr, fault, vmIDs, macs,
           term, state, client, sigChan, pending, notified, listener, werr,
           winch >>

NoOp == [op |-> "none", vmName |-> "", ok |-> TRUE]

(* No interactive session was opened: the terminal is in its usual mode. *)
NoSession ==
    /\ term = "cooked"
    /\ state = "none"
    /\ client = "none"
    /\ sigChan = "none"
    /\ pending = 0
    /\ notified = FALSE
    /\ listener = "none"
    /\ werr = ""
    /\ winch = 0

Init ==
    /\ domains = [n \in VMNames |-> NoDomain]
    /\ snapshots = [n \in VMNames |-> 0]
    /\ volumes = {}
    /\ dhcp = {}
    /\ op = "none"
    /\ pc = "done"
    /\ vmName = ""
    /\ flag = FALSE
    /\ active = FALSE
    /\ persistent = FALSE
    /\ todo = 0
    /\ err = ""
    /\ calls = << >>
    /\ events = << >>
    /\ subscribed = FALSE
    /\ timeout = "off"
    /\ noise = 0
    /\ first = "none"
    /\ prev = NoOp
    /\ nops = 0
    /\ targets = << >>
    /\ ips = << >>
    /\ tasks = << >>
    /\ gerr = 0
    /\ fault = FALSE
    /\ vmIDs = << >>
    /\ macs = << >>
    /\ NoSession

(* A new invocation: the previous one has returned. *)
Begin(o, n, f) ==
    /\ pc = "done"
    /\ nops < MaxOps
    /\ nops' = nops + 1
    /\ prev' = [op |-> op, vmName |-> vmName, ok |-> (err = "")]
    /\ op' = o
    /\ vmName' = n
    /\ flag' = f
    /\ calls' = << >>
    /\ active' = FALSE
    /\ persistent' = FALSE
    /\ todo' = 0
    /\ events' = << >>
    /\ subscribed' = FALSE
    /\ timeout' = "off"
    /\ noise' = 0
    /\ first' = "none"
    /\ UNCHANGED << execVars, auxVars >>

(* return e, where e is nil or the error of a call the backend refused *)
(* because of the state it is in                                       *)
Return(e) ==
    /\ pc' = "done"
    /\ err' = e
    /\ fault' = FALSE

(* return e, the error of a call that failed in the backend *)
Fail(e) ==
    /\ pc' = "done"
    /\ err' = e
    /\ fault' = TRUE

(* return e, the error of a call that the backend refused (ok) or that *)
(* failed in the backend                                               *)
Reject(ok, e) == IF ok THEN Return(e) ELSE Fail(e)

(* continue with the call at p *)
Goto(p) ==
    /\ pc' = p
    /\ err' = ""
    /\ fault' = FALSE

Called(c, arg) == calls' = Append(calls, << c, arg >>)

----------------------------------------------------------------------------
(* VMRun *)

(* VMRun: StoragePoolLookupByName. *)
VMRun(vmConfig, waitSSH) ==
    /\ Begin("VMRun", vmConfig.VMName, waitSSH)
    /\ UNCHANGED backendVars
    /\ \E ok \in BOOLEAN :
        IF ok THEN Goto("createVMVolume")
        ELSE Fail("could not get storage pool")

(* StorageVolCreateXML of the pool: rejects a name the pool already holds. *)
StorageVolCreateXML(name, ok, failure, next) ==
    IF ok /\ name \notin volumes
    THEN /\ volumes' = volumes \cup {name}
         /\ Called("StorageVolCreateXML", name)
         /\ Goto(next)
    ELSE /\ UNCHANGED << volumes, calls >>
         /\ Reject(ok, failure)

(* createVMVolume: backing image lookup and path, then the boot volume. *)
createVMVolume ==
    /\ op = "VMRun" /\ pc = "createVMVolume"
    /\ UNCHANGED << domains, snapshots, dhcp, localVars, monitorVars, opVars >>
    /\ \E res \in {"ok", "backing", "create"} :
        IF res = "backing"
        THEN /\ UNCHANGED << volumes, calls >>
             /\ Fail("could not get backing image volume")
        ELSE StorageVolCreateXML(vmName, res = "ok",
                 "could not create VM boot volume", "createCIData")

(* createCIData: render and package, create the volume, upload into it. *)
createCIData ==
    /\ op = "VMRun" /\ pc = "createCIData"
    /\ UNCHANGED << domains, snapshots, dhcp, localVars, monitorVars, opVars >>
    /\ \E res \in {"ok", "generate", "create", "upload"} :
        CASE res = "generate" ->
                /\ UNCHANGED << volumes, calls >>
                /\ Fail("failed to generate ISO")
          [] res = "upload" /\ ciDataVolumeName(vmName) \notin volumes ->
                /\ volumes' = volumes \cup {ciDataVolumeName(vmName)}
                /\ Called("StorageVolCreateXML", ciDataVolumeName(vmName))
                /\ Fail("failed to transfer cloud-init data to libvirt")
          [] OTHER ->
                StorageVolCreateXML(ciDataVolumeName(vmName), res = "ok",
                    "could not create cloud-init volume",
                    "createScratchVolume")

(* createScratchVolume *)
createScratchVolume ==
    /\ op = "VMRun" /\ pc = "createScratchVolume"
    /\ UNCHANGED << domains, snapshots, dhcp, localVars, monitorVars, opVars >>
    /\ \E ok \in BOOLEAN :
        StorageVolCreateXML(scratchVolumeName(vmName), ok,
            "could not create scratch volume", "DomainDefineXML")

(* VM descriptors whose names are a VM name and that name with the *)
(* suffix of its scratch volume and of its cloud-init volume.      *)
SuffixConfigs ==
    { [VMName |-> "a", VMID |-> 1],
      [VMName |-> scratchVolumeName("a"), VMID |-> 3],
      [VMName |-> ciDataVolumeName("a"), VMID |-> 4] }

SuffixNames == { c.VMName : c \in SuffixConfigs }

VMIDOf(n) == (CHOOSE c \in VMConfigs \cup SuffixConfigs : c.VMName = n).VMID

(* createVM with the domain started before its DHCP entry is added. *)
createVMNextStartFirst(step) ==
    CASE step = "DomainDefineXML" -> "DomainCreate"
      [] step = "DomainCreate" -> "addDHCPEntry"
      [] step = "addDHCPEntry" -> "return"

(* createVM: the call that follows each call that succeeded. *)
createVMNext(step) ==
    CASE step = "DomainDefineXML" -> "addDHCPEntry"
      [] step = "addDHCPEntry" -> "DomainCreate"
      [] step = "DomainCreate" -> "return"

(* createVM goes on to its next call, or returns ip to VMRun, which waits *)
(* for the SSH port if waitSSH is set.                                    *)
createVMGoto(step) ==
    IF createVMNext(step) # "return" THEN Goto(createVMNext(step))
    ELSE IF flag THEN Goto("WaitPort") ELSE Return("")

(* addDHCPEntry(mac, vmID): adds the host entry of the MAC to the network. *)
bind(mac) == dhcp \cup {mac}

(* rmDHCPEntry(domain): removes the host entry of the domain's MAC; an *)
(* entry that is not there is no error.                                *)
unbind(mac) == dhcp \ {mac}

(* createVM: DomainDefineXML, which rejects a second domain of the name. *)
DomainDefineXML ==
    /\ op = "VMRun" /\ pc = "DomainDefineXML"
    /\ UNCHANGED << snapshots, volumes, dhcp, localVars, monitorVars, opVars >>
    /\ \E ok \in BOOLEAN :
        IF ok /\ domains[vmName].state = "absent"
        THEN /\ domains' = [domains EXCEPT ![vmName] =
                   [state |-> "inactive", mac |-> qemuMAC(VMIDOf(vmName))]]
             /\ Called("DomainDefineXML", vmName)
             /\ createVMGoto("DomainDefineXML")
        ELSE /\ UNCHANGED << domains, calls >>
             /\ Reject(ok, "could not define domain")

(* createVM: addDHCPEntry(mac, vmID), after the domain is defined. *)
addDHCPEntry ==
    /\ op = "VMRun" /\ pc = "addDHCPEntry"
    /\ UNCHANGED << domains, snapshots, volumes, localVars, monitorVars,
                    opVars >>
    /\ \E ok \in BOOLEAN :
        IF ok
        THEN /\ dhcp' = bind(qemuMAC(VMIDOf(vmName)))
             /\ Called("addDHCPEntry", vmName)
             /\ createVMGoto("addDHCPEntry")
        ELSE /\ UNCHANGED << dhcp, calls >>
             /\ Fail("could not add DHCP entry")

(* DomainCreate whose failure is followed by a rollback of the domain. *)
DomainCreateRollback ==
    /\ op = "VMRun" /\ pc = "DomainCreate"
    /\ UNCHANGED << snapshots, volumes, dhcp, localVars, monitorVars, opVars >>
    /\ \E ok \in BOOLEAN :
        IF ok /\ domains[vmName].state = "inactive"
        THEN /\ domains' = [domains EXCEPT ![vmName].state = "active"]
             /\ Called("DomainCreate", vmName)
             /\ createVMGoto("DomainCreate")
        ELSE /\ domains' = [domains EXCEPT ![vmName] = NoDomain]
             /\ Called("DomainUndefine", vmName)
             /\ Reject(ok, "could create create (start) domain")

(* createVM: DomainCreate starts the defined domain. *)
DomainCreate ==
    /\ op = "VMRun" /\ pc = "DomainCreate"
    /\ UNCHANGED << snapshots, volumes, dhcp, localVars, monitorVars, opVars >>
    /\ \E ok \in BOOLEAN :
        IF ok /\ domains[vmName].state = "inactive"
        THEN /\ domains' = [domains EXCEPT ![vmName].state = "active"]
             /\ Called("DomainCreate", vmName)
             /\ createVMGoto("DomainCreate")
        ELSE /\ UNCHANGED << domains, calls >>
             /\ Reject(ok, "could create create (start) domain")

(* VMRun: waiter.WaitPort when waitSSH is set. *)
WaitPort ==
    /\ op = "VMRun" /\ pc = "WaitPort"
    /\ UNCHANGED << backendVars, calls, localVars, monitorVars, opVars >>
    /\ \E ok \in BOOLEAN :
        IF ok THEN Return("") ELSE Fail("unable to connect to SSH port")

----------------------------------------------------------------------------
(* VMRm and vmRmExceptBoot *)

(* VMRm: StoragePoolLookupByName. *)
VMRm(n) ==
    /\ Begin("VMRm", n, FALSE)
    /\ UNCHANGED backendVars
    /\ \E ok \in BOOLEAN :
        IF ok THEN Goto("DomainLookupByName")
        ELSE Fail("could not get storage pool")

(* vmRmExceptBoot that returns every error of the lookup, errNoDomain too. *)
DomainLookupByNameStrict ==
    /\ op \in {"VMRm", "VMCommit"} /\ pc = "DomainLookupByName"
    /\ UNCHANGED << backendVars, calls, localVars, monitorVars, opVars >>
    /\ \E ok \in BOOLEAN :
        IF ok /\ domains[vmName].state # "absent"
        THEN Goto("DomainListAllSnapshots")
        ELSE Reject(ok, "could not get domain")

(* vmRmExceptBoot: DomainLookupByName; errNoDomain skips the domain part. *)
DomainLookupByName ==
    /\ op \in {"VMRm", "VMCommit"} /\ pc = "DomainLookupByName"
    /\ UNCHANGED << backendVars, calls, localVars, monitorVars, opVars >>
    /\ \E ok \in BOOLEAN :
        IF ~ok THEN Fail("could not get domain")
        ELSE IF domains[vmName].state = "absent" THEN Goto("rmVolume_scratch")
        ELSE Goto("DomainListAllSnapshots")

(* rmSnapshots: DomainListAllSnapshots. *)
DomainListAllSnapshots ==
    /\ op \in {"VMRm", "VMCommit"} /\ pc = "DomainListAllSnapshots"
    /\ UNCHANGED << backendVars, calls, active, persistent, monitorVars,
                    opVars >>
    /\ \E ok \in BOOLEAN :
        IF ok
        THEN /\ todo' = snapshots[vmName]
             /\ Goto("DomainSnapshotDelete")
        ELSE /\ todo' = todo
             /\ Fail("could not list snapshots")

(* rmSnapshots: one turn of the loop over the listed snapshots. *)
DomainSnapshotDelete ==
    /\ op \in {"VMRm", "VMCommit"} /\ pc = "DomainSnapshotDelete"
    /\ UNCHANGED << domains, volumes, dhcp, active, persistent, monitorVars,
                    opVars >>
    /\ IF todo = 0
       THEN /\ UNCHANGED << snapshots, todo, calls >>
            /\ Goto("DomainIsActive")
       ELSE \E ok \in BOOLEAN :
            IF ok
            THEN /\ snapshots' = [snapshots EXCEPT ![vmName] = @ - 1]
                 /\ todo' = todo - 1
                 /\ Called("DomainSnapshotDelete", vmName)
                 /\ Goto("DomainSnapshotDelete")
            ELSE /\ UNCHANGED << snapshots, todo, calls >>
                 /\ Fail("could not delete snapshot")

(* vmRmExceptBoot: DomainIsActive. *)
DomainIsActive ==
    /\ op \in {"VMRm", "VMCommit"} /\ pc = "DomainIsActive"
    /\ UNCHANGED << backendVars, calls, persistent, todo, monitorVars,
                    opVars >>
    /\ \E ok \in BOOLEAN :
        IF ok
        THEN /\ active' = (domains[vmName].state = "active")
             /\ Goto("DomainIsPersistent")
        ELSE /\ active' = active
             /\ Fail("could not check if domain is active")

(* vmRmExceptBoot: DomainIsPersistent; a defined domain is persistent. *)
DomainIsPersistent ==
    /\ op \in {"VMRm", "VMCommit"} /\ pc = "DomainIsPersistent"
    /\ UNCHANGED << backendVars, calls, active, todo, monitorVars, opVars >>
    /\ \E ok \in BOOLEAN :
        IF ok
        THEN /\ persistent' = (domains[vmName].state # "absent")
             /\ Goto("rmDHCPEntry")
        ELSE /\ persistent' = persistent
             /\ Fail("could not check if domain is persistent")

(* rmDHCPEntry that takes a DHCP entry that is not there for an error. *)
rmDHCPEntryStrict ==
    /\ op \in {"VMRm", "VMCommit"} /\ pc = "rmDHCPEntry"
    /\ UNCHANGED << domains, snapshots, volumes, localVars, monitorVars,
                    opVars >>
    /\ \E ok \in BOOLEAN :
        IF ok /\ domains[vmName].mac \in dhcp
        THEN /\ dhcp' = unbind(domains[vmName].mac)
             /\ Called("rmDHCPEntry", vmName)
             /\ Goto("DomainDestroy")
        ELSE /\ UNCHANGED << dhcp, calls >>
             /\ Reject(ok, "could not remove DHCP entry")

(* vmRmExceptBoot that goes on to destroy the domain with its DHCP entry *)
(* left in place.                                                       *)
rmDHCPEntrySkipped ==
    /\ op \in {"VMRm", "VMCommit"} /\ pc = "rmDHCPEntry"
    /\ UNCHANGED << backendVars, calls, localVars, monitorVars, opVars >>
    /\ Goto("DomainDestroy")

(* vmRmExceptBoot: rmDHCPEntry(domain), before the domain is destroyed. *)
rmDHCPEntry ==
    /\ op \in {"VMRm", "VMCommit"} /\ pc = "rmDHCPEntry"
    /\ UNCHANGED << domains, snapshots, volumes, localVars, monitorVars,
                    opVars >>
    /\ \E ok \in BOOLEAN :
        IF ok
        THEN /\ dhcp' = unbind(domains[vmName].mac)
             /\ Called("rmDHCPEntry", vmName)
             /\ Goto("DomainDestroy")
        ELSE /\ UNCHANGED << dhcp, calls >>
             /\ Fail("could not remove DHCP entry")

(* vmRmExceptBoot: DomainDestroy if active; the backend refuses to destroy *)
(* a domain that is not running.                                          *)
DomainDestroy ==
    /\ op \in {"VMRm", "VMCommit"} /\ pc = "DomainDestroy"
    /\ UNCHANGED << snapshots, volumes, dhcp, localVars, monitorVars, opVars >>
    /\ IF ~active
       THEN /\ UNCHANGED << domains, calls >>
            /\ Goto("DomainUndefine")
       ELSE \E ok \in BOOLEAN :
            IF ok /\ domains[vmName].state = "active"
            THEN /\ domains' = [domains EXCEPT ![vmName].state = "inactive"]
                 /\ Called("DomainDestroy", vmName)
                 /\ Goto("DomainUndefine")
            ELSE /\ UNCHANGED << domains, calls >>
                 /\ Reject(ok, "could not destroy domain")

(* vmRmExceptBoot: DomainUndefine if persistent. *)
DomainUndefine ==
    /\ op \in {"VMRm", "VMCommit"} /\ pc = "DomainUndefine"
    /\ UNCHANGED << volumes, dhcp, localVars, monitorVars, opVars >>
    /\ IF ~persistent
       THEN /\ UNCHANGED << domains, snapshots, calls >>
            /\ Goto("rmVolume_scratch")
       ELSE \E ok \in BOOLEAN :
            IF ok /\ snapshots[vmName] = 0
            THEN /\ domains' = [domains EXCEPT ![vmName] = NoDomain]
                 /\ UNCHANGED snapshots
                 /\ Called("DomainUndefine", vmName)
                 /\ Goto("rmVolume_scratch")
            ELSE /\ UNCHANGED << domains, snapshots, calls >>
                 /\ Reject(ok, "could not undefine domain")

(* rmVolume that returns every error of the lookup, errNoStorageVol too. *)
rmVolumeStrict(volumeName, debugName, next) ==
    /\ UNCHANGED << domains, snapshots, dhcp, localVars, monitorVars, opVars >>
    /\ IF volumeName \notin volumes
       THEN /\ UNCHANGED << volumes, calls >>
            /\ Return("could not get " \o debugName \o " volume")
       ELSE /\ volumes' = volumes \ {volumeName}
            /\ Called("StorageVolDelete", volumeName)
            /\ IF next = "done" THEN Return("") ELSE Goto(next)

(* rmVolume: StorageVolLookupByName; errNoStorageVol is no error and skips *)
(* StorageVolDelete.                                                      *)
rmVolume(volumeName, debugName, next) ==
    /\ UNCHANGED << domains, snapshots, dhcp, localVars, monitorVars, opVars >>
    /\ \E res \in {"ok", "lookup", "delete"} :
        CASE res = "lookup" ->
                /\ UNCHANGED << volumes, calls >>
                /\ Fail("could not get " \o debugName \o " volume")
          [] res = "ok" /\ volumeName \notin volumes ->
                /\ UNCHANGED << volumes, calls >>
                /\ IF next = "done" THEN Return("") ELSE Goto(next)
          [] res = "ok" /\ volumeName \in volumes ->
                /\ volumes' = volumes \ {volumeName}
                /\ Called("StorageVolDelete", volumeName)
                /\ IF next = "done" THEN Return("") ELSE Goto(next)
          [] OTHER ->
                /\ UNCHANGED << volumes, calls >>
                /\ IF volumeName \in volumes
                   THEN Fail("could not delete " \o debugName \o " volume")
                   ELSE IF next = "done" THEN Return("") ELSE Goto(next)

(* vmRmExceptBoot: the scratch volume. *)
rmVolumeScratch ==
    /\ op \in {"VMRm", "VMCommit"} /\ pc = "rmVolume_scratch"
    /\ rmVolume(scratchVolumeName(vmName), "scratch", "rmVolume_cidata")

(* The cloud-init volume, with the boot volume next for VMCommit too. *)
rmVolumeCIDataThenBoot ==
    /\ op \in {"VMRm", "VMCommit"} /\ pc = "rmVolume_cidata"
    /\ rmVolume(ciDataVolumeName(vmName), "cloud-init", "rmVolume_boot")

(* The cloud-init volume, with the boot volume left to VMRm's caller. *)
rmVolumeCIDataLast ==
    /\ op \in {"VMRm", "VMCommit"} /\ pc = "rmVolume_cidata"
    /\ rmVolume(ciDataVolumeName(vmName), "cloud-init", "done")

(* vmRmExceptBoot: the cloud-init volume; VMRm goes on to the boot volume, *)
(* VMCommit returns.                                                       *)
rmVolumeCIData ==
    /\ op \in {"VMRm", "VMCommit"} /\ pc = "rmVolume_cidata"
    /\ rmVolume(ciDataVolumeName(vmName), "cloud-init",
                IF op = "VMRm" THEN "rmVolume_boot" ELSE "done")

(* VMRm: the boot volume. *)
rmVolumeBoot ==
    /\ pc = "rmVolume_boot"
    /\ rmVolume(vmName, "boot", "done")

----------------------------------------------------------------------------
(* VMCommit and vmShutdown *)

(* vmShutdown that opens the event channel after the activity check. *)
vmShutdownNextCheckFirst(step, isActive) ==
    CASE step = "vmShutdown" -> "shutdown_DomainIsActive"
      [] step = "shutdown_DomainIsActive" -> "LifecycleEvents"
      [] step = "LifecycleEvents" ->
             IF isActive THEN "DomainShutdown" ELSE "After"

(* vmShutdown: the call that follows each call that succeeded, up to the *)
(* wait: LifecycleEvents, then DomainIsActive, then DomainShutdown if    *)
(* the domain is active, then After.                                     *)
vmShutdownNext(step, isActive) ==
    CASE step = "vmShutdown" -> "LifecycleEvents"
      [] step = "LifecycleEvents" -> "shutdown_DomainIsActive"
      [] step = "shutdown_DomainIsActive" ->
             IF isActive THEN "DomainShutdown" ELSE "After"

(* VMCommit that takes errNoDomain for a domain that is already gone. *)
VMCommitTolerant(n, shutdown) ==
    /\ Begin("VMCommit", n, shutdown)
    /\ UNCHANGED backendVars
    /\ \E ok \in BOOLEAN :
        IF ~ok THEN Fail("could not get domain")
        ELSE IF domains[n].state = "absent"
        THEN Goto("StoragePoolLookupByName")
        ELSE Goto(IF shutdown THEN vmShutdownNext("vmShutdown", FALSE)
                  ELSE "commit_DomainIsActive")

(* VMCommit: DomainLookupByName; every error returns, errNoDomain too. *)
VMCommit(n, shutdown) ==
    /\ Begin("VMCommit", n, shutdown)
    /\ UNCHANGED backendVars
    /\ \E ok \in BOOLEAN :
        IF ok /\ domains[n].state # "absent"
        THEN Goto(IF shutdown THEN vmShutdownNext("vmShutdown", FALSE)
                  ELSE "commit_DomainIsActive")
        ELSE Reject(ok, "could not get domain")

(* VMCommit without shutdown and without the check for a running VM. *)
commitRunningIgnored(isActive) == Goto("StoragePoolLookupByName")

(* VMCommit without shutdown: "if active != 0 { return ... }". *)
commitRunning(isActive) ==
    IF isActive THEN Return("cannot commit a running VM")
    ELSE Goto("StoragePoolLookupByName")

(* VMCommit without shutdown: DomainIsActive; a running VM is refused. *)
commitDomainIsActive ==
    /\ op = "VMCommit" /\ pc = "commit_DomainIsActive"
    /\ UNCHANGED << backendVars, calls, persistent, todo, monitorVars,
                    opVars >>
    /\ \E ok \in BOOLEAN :
        IF ok
        THEN /\ active' = (domains[vmName].state = "active")
             /\ commitRunning(active')
        ELSE /\ active' = active
             /\ Fail("could not check if domain is active")

(* vmShutdown returns: its event channel and deadline go out of scope. *)
Leave ==
    /\ events' = << >>
    /\ subscribed' = FALSE
    /\ timeout' = "off"
    /\ noise' = 0

(* vmShutdown: LifecycleEvents opens the event channel. *)
LifecycleEvents ==
    /\ op = "VMCommit" /\ pc = "LifecycleEvents"
    /\ UNCHANGED << backendVars, localVars, timeout, noise, first, opVars >>
    /\ \E ok \in BOOLEAN :
        IF ok
        THEN /\ subscribed' = TRUE
             /\ events' = << >>
             /\ Called("LifecycleEvents", vmName)
             /\ Goto(vmShutdownNext("LifecycleEvents", active))
        ELSE /\ UNCHANGED << subscribed, events, calls >>
             /\ Fail("could not start waiting for events")

(* vmShutdown: DomainIsActive, after the event channel is open. *)
shutdownDomainIsActive ==
    /\ op = "VMCommit" /\ pc = "shutdown_DomainIsActive"
    /\ UNCHANGED << backendVars, calls, persistent, todo, first, opVars >>
    /\ \E ok \in BOOLEAN :
        IF ok
        THEN /\ active' = (domains[vmName].state = "active")
             /\ UNCHANGED << events, subscribed, timeout, noise >>
             /\ Goto(vmShutdownNext("shutdown_DomainIsActive", active'))
        ELSE /\ active' = active
             /\ Leave
             /\ Fail("could not check if domain is active")

(* vmShutdown: DomainShutdown asks the guest to shut down; the backend *)
(* refuses it for a domain that is not running.                        *)
DomainShutdown ==
    /\ op = "VMCommit" /\ pc = "DomainShutdown"
    /\ UNCHANGED << backendVars, localVars, first, opVars >>
    /\ \E ok \in BOOLEAN :
        IF ok /\ domains[vmName].state = "active"
        THEN /\ Called("DomainShutdown", vmName)
             /\ UNCHANGED << events, subscribed, timeout, noise >>
             /\ Goto("After")
        ELSE /\ calls' = calls
             /\ Leave
             /\ Reject(ok, "could not shut down domain")

(* vmShutdown: afterNotifier.After(shutdownTimeout) arms the deadline. *)
After ==
    /\ op = "VMCommit" /\ pc = "After"
    /\ UNCHANGED << backendVars, calls, localVars, events, subscribed, noise,
                    first, opVars >>
    /\ timeout' = "armed"
    /\ Goto("select")

Stopped(n) == [dom |-> n, event |-> "stopped"]

(* vmShutdown whose deadline ends the wait without an error. *)
vmShutdownWaitNoError ==
    /\ op = "VMCommit" /\ pc = "select"
    /\ UNCHANGED << backendVars, calls, persistent, todo, first, opVars >>
    /\ \/ /\ ~active
          /\ active' = active
          /\ Leave
          /\ Goto("StoragePoolLookupByName")
       \/ /\ active
          /\ events # << >>
          /\ events' = Tail(events)
          /\ active' = ~(Head(events) = Stopped(vmName))
          /\ UNCHANGED << subscribed, timeout, noise >>
          /\ Goto("select")
       \/ /\ active
          /\ timeout = "fired"
          /\ active' = FALSE
          /\ UNCHANGED << events, subscribed, timeout, noise >>
          /\ Goto("select")

(* vmShutdown whose wait ends with any event of the domain, whatever its *)
(* kind.                                                                 *)
vmShutdownWaitAnyKind ==
    /\ op = "VMCommit" /\ pc = "select"
    /\ UNCHANGED << backendVars, calls, persistent, todo, first, opVars >>
    /\ \/ /\ ~active
          /\ active' = active
          /\ Leave
          /\ Goto("StoragePoolLookupByName")
       \/ /\ active
          /\ events # << >>
          /\ events' = Tail(events)
          /\ active' = ~(Head(events).dom = vmName)
          /\ UNCHANGED << subscribed, timeout, noise >>
          /\ Goto("select")
       \/ /\ active
          /\ timeout = "fired"
          /\ active' = active
          /\ Leave
          /\ Return("timed out waiting for domain to stop")

(* vmShutdown: the loop "for active != 0 { select ... }" and the return. *)
(* When an event and the deadline are both ready the select takes either. *)
vmShutdownWait ==
    /\ op = "VMCommit" /\ pc = "select"
    /\ UNCHANGED << backendVars, calls, persistent, todo, first, opVars >>
    /\ \/ /\ ~active
          /\ active' = active
          /\ Leave
          /\ Goto("StoragePoolLookupByName")
       \/ /\ active
          /\ events # << >>
          /\ events' = Tail(events)
          /\ active' = ~(Head(events) = Stopped(vmName))
          /\ UNCHANGED << subscribed, timeout, noise >>
          /\ Goto("select")
       \/ /\ active
          /\ timeout = "fired"
          /\ active' = active
          /\ Leave
          /\ Return("timed out waiting for domain to stop")

(* VMCommit: StoragePoolLookupByName, then vmRmExceptBoot. *)
StoragePoolLookupByName ==
    /\ op = "VMCommit" /\ pc = "StoragePoolLookupByName"
    /\ UNCHANGED << backendVars, calls, localVars, monitorVars, opVars >>
    /\ \E ok \in BOOLEAN :
        IF ok THEN Goto("DomainLookupByName")
        ELSE Fail("could not get storage pool")

----------------------------------------------------------------------------
(* The backend's side: guests, timers and other users of the backend. *)

(* A running domain stops (the guest powers off, on request or by itself); *)
(* the backend reports it on the open event channel.                       *)
DomainStopped(n) ==
    /\ domains[n].state = "active"
    /\ domains' = [domains EXCEPT ![n].state = "inactive"]
    /\ events' = IF subscribed THEN Append(events, Stopped(n)) ELSE events
    /\ first' = CASE subscribed /\ n = vmName /\ first = "none" -> "stopped"
                  [] subscribed /\ n = vmName /\ first = "deadline" ->
                         "deadline,stopped"
                  [] OTHER -> first
    /\ UNCHANGED << snapshots, volumes, dhcp, pc, err, fault, calls, localVars,
                    subscribed, timeout, noise, opVars >>

(* Any other lifecycle event of a running domain on the open channel. *)
LifecycleEvent(n) ==
    /\ subscribed
    /\ noise < MaxNoise
    /\ domains[n].state = "active"
    /\ events' = Append(events, [dom |-> n, event |-> "shutdown"])
    /\ noise' = noise + 1
    /\ UNCHANGED << backendVars, pc, err, fault, calls, localVars, subscribed,
                    timeout, first, opVars >>

(* The deadline of After elapses. *)
TimerFired ==
    /\ pc = "select"
    /\ timeout = "armed"
    /\ timeout' = "fired"
    /\ first' = CASE first = "none" -> "deadline"
                  [] first = "stopped" /\ active -> "stopped,deadline"
                  [] OTHER -> first
    /\ UNCHANGED << backendVars, pc, err, fault, calls, localVars, events,
                    subscribed, noise, opVars >>

(* Another user of the backend snapshots a domain between invocations. *)
SnapshotCreate(n) ==
    /\ pc = "done"
    /\ domains[n].state # "absent"
    /\ snapshots[n] < MaxSnapshots
    /\ snapshots' = [snapshots EXCEPT ![n] = @ + 1]
    /\ UNCHANGED << domains, volumes, dhcp, pc, err, fault, calls, localVars,
                    monitorVars, opVars >>

----------------------------------------------------------------------------
(* The provisioning executor: getIPs, VMExecShell, VMExecRsync, VMExecDocker *)

Seqs(S, n) == UNION { [1..k -> S] : k \in 0..n }

(* A new invocation of the executor against vmNames. *)
BeginExec(o, names) ==
    /\ pc = "done"
    /\ op' = o
    /\ targets' = names
    /\ ips' = << >>
    /\ tasks' = << >>
    /\ gerr' = 0
    /\ calls' = << >>
    /\ UNCHANGED << backendVars, localVars, monitorVars, vmName, flag, prev,
                    nops, auxVars >>

(* VMExecShell: getSSHClientConfig calls getIPs: NetworkLookupByName. *)
VMExecShell(names) ==
    /\ BeginExec("VMExecShell", names)
    /\ \E ok \in BOOLEAN :
        IF ok THEN Goto("getIPs") ELSE Fail("could not get network")

(* VMExecRsync: filepath.Glob, then getIPs: NetworkLookupByName. *)
VMExecRsync(names) ==
    /\ BeginExec("VMExecRsync", names)
    /\ \E res \in {"ok", "glob", "network"} :
        CASE res = "glob" -> Fail("failed to parse glob pattern")
          [] res = "network" -> Fail("could not get network")
          [] OTHER -> Goto("getIPs")

(* VMExecDocker: getIPs: NetworkLookupByName. *)
VMExecDocker(names) ==
    /\ BeginExec("VMExecDocker", names)
    /\ \E ok \in BOOLEAN :
        IF ok THEN Goto("getIPs") ELSE Fail("could not get network")

(* The callers of getIPs go on with ips. *)
getIPsReturn ==
    Goto(CASE op = "VMExecShell" -> "ParsePrivateKey"
           [] op = "VMExecRsync" -> "Go"
           [] OTHER -> "dockerRun")

(* Callers of getIPs that go on with the addresses resolved so far. *)
getIPsErrorIgnored(ok, e) == getIPsReturn

(* The callers of getIPs: "if err != nil { return err }"; ok tells a call *)
(* the backend refused from a call that failed.                          *)
getIPsError(ok, e) == Reject(ok, e)

(* getIPs that queries the leases of a domain before it checks whether the *)
(* domain is running.                                                     *)
getIPsLookupFirst ==
    /\ op \in {"VMExecShell", "VMExecRsync", "VMExecDocker"} /\ pc = "getIPs"
    /\ UNCHANGED << backendVars, localVars, monitorVars, op, vmName, flag,
                    prev, nops, targets, tasks, gerr, auxVars >>
    /\ IF Len(ips) = Len(targets)
       THEN /\ UNCHANGED << ips, calls >>
            /\ getIPsReturn
       ELSE LET name == targets[Len(ips) + 1] IN
            \E res \in {"ok", "lookup", "isactive", "noip"} :
            CASE res = "lookup" \/ domains[name].state = "absent" ->
                    /\ UNCHANGED << ips, calls >>
                    /\ getIPsError(res # "lookup", "could not get domain")
              [] res = "isactive" /\ domains[name].state # "absent" ->
                    /\ UNCHANGED << ips, calls >>
                    /\ getIPsError(FALSE, "could not check if domain is active")
              [] res \in {"ok", "noip"} /\ domains[name].state = "inactive" ->
                    /\ Called("findVMIP", name)
                    /\ ips' = ips
                    /\ getIPsError(TRUE,
                           "cannot exec against VM that is not running")
              [] res = "noip" /\ domains[name].state = "active" ->
                    /\ Called("findVMIP", name)
                    /\ ips' = ips
                    /\ getIPsError(FALSE, "could not find IP for VM")
              [] OTHER ->
                    /\ Called("findVMIP", name)
                    /\ ips' = Append(ips, name)
                    /\ Goto("getIPs")

(* getIPs: one turn of the loop over vmNames, or the return of ips. *)
(* findVMIP reads the domain's MAC and queries the DHCP leases for it. *)
getIPs ==
    /\ op \in {"VMExecShell", "VMExecRsync", "VMExecDocker"} /\ pc = "getIPs"
    /\ UNCHANGED << backendVars, localVars, monitorVars, op, vmName, flag,
                    prev, nops, targets, tasks, gerr, auxVars >>
    /\ IF Len(ips) = Len(targets)
       THEN /\ UNCHANGED << ips, calls >>
            /\ getIPsReturn
       ELSE LET name == targets[Len(ips) + 1] IN
            \E res \in {"ok", "lookup", "isactive", "noip"} :
            CASE res = "lookup" \/ domains[name].state = "absent" ->
                    /\ UNCHANGED << ips, calls >>
                    /\ getIPsError(res # "lookup", "could not get domain")
              [] res = "isactive" /\ domains[name].state # "absent" ->
                    /\ UNCHANGED << ips, calls >>
                    /\ getIPsError(FALSE, "could not check if domain is active")
              [] res \in {"ok", "noip"} /\ domains[name].state = "inactive" ->
                    /\ UNCHANGED << ips, calls >>
                    /\ getIPsError(TRUE,
                           "cannot exec against VM that is not running")
              [] res = "noip" /\ domains[name].state = "active" ->
                    /\ Called("findVMIP", name)
                    /\ ips' = ips
                    /\ getIPsError(FALSE, "could not find IP for VM")
              [] OTHER ->
                    /\ Called("findVMIP", name)
                    /\ ips' = Append(ips, name)
                    /\ Goto("getIPs")

(* getSSHClientConfig: ssh.ParsePrivateKey after getIPs. *)
ParsePrivateKey ==
    /\ op = "VMExecShell" /\ pc = "ParsePrivateKey"
    /\ UNCHANGED << backendVars, calls, localVars, monitorVars, opVars >>
    /\ \E ok \in BOOLEAN :
        IF ok THEN Goto("Go") ELSE Fail("ssh: no key found")

(* The loop over ips: g.Go starts the task of the next address; after the *)
(* last one the caller goes on to g.Wait.                                 *)
Go ==
    /\ op \in {"VMExecShell", "VMExecRsync"} /\ pc = "Go"
    /\ UNCHANGED << backendVars, localVars, monitorVars, op, vmName, flag,
                    prev, nops, targets, ips, gerr, auxVars >>
    /\ IF Len(tasks) < Len(ips)
       THEN /\ tasks' = Append(tasks, "running")
            /\ Called("Go", ips[Len(tasks) + 1])
            /\ Goto("Go")
       ELSE /\ UNCHANGED << tasks, calls >>
            /\ Goto("Wait")

(* A task (runSSHCommand, copier.Copy) ends by itself, with or without an *)
(* error; the errgroup keeps the first error.                             *)
TaskEnds(i) ==
    /\ op \in {"VMExecShell", "VMExecRsync"}
    /\ i \in 1..Len(tasks)
    /\ tasks[i] = "running"
    /\ UNCHANGED << backendVars, pc, err, fault, calls, localVars,
                    monitorVars, op, vmName, flag, prev, nops, targets, ips,
                    auxVars >>
    /\ \E ok \in BOOLEAN :
        IF ok
        THEN /\ tasks' = [tasks EXCEPT ![i] = "completed"]
             /\ gerr' = gerr
        ELSE /\ tasks' = [tasks EXCEPT ![i] = "failed"]
             /\ gerr' = IF gerr = 0 THEN i ELSE gerr

(* A Wait that returns as soon as one task has failed. *)
WaitReadyFailFast ==
    \/ gerr # 0
    \/ \A i \in 1..Len(tasks) : tasks[i] # "running"

(* g.Wait blocks until every task has returned. *)
WaitReady == \A i \in 1..Len(tasks) : tasks[i] # "running"

(* g.Wait returns the errgroup's error. *)
Wait ==
    /\ op \in {"VMExecShell", "VMExecRsync"} /\ pc = "Wait"
    /\ WaitReady
    /\ UNCHANGED << backendVars, calls, localVars, monitorVars, opVars >>
    /\ Return(IF gerr = 0 THEN "" ELSE "task failed")

(* VMExecDocker: dockerRun with all the addresses. *)
dockerRun ==
    /\ op = "VMExecDocker" /\ pc = "dockerRun"
    /\ UNCHANGED << backendVars, localVars, monitorVars, op, vmName, flag,
                    prev, nops, targets, ips, tasks, gerr, auxVars >>
    /\ Called("dockerRun", ips)
    /\ \E ok \in BOOLEAN :
        IF ok THEN Return("") ELSE Fail("docker run failed")

(* A backend in which each VM was never run, or was run and is up, or *)
(* was run and has stopped since.                                     *)
InitRan ==
    /\ domains \in [VMNames ->
           {NoDomain} \cup
           { [state |-> st, mac |-> qemuMAC(c.VMID)] :
                 st \in {"inactive", "active"}, c \in VMConfigs }]
    /\ \A c \in VMConfigs :
           domains[c.VMName].state # "absent"
               => domains[c.VMName].mac = qemuMAC(c.VMID)
    /\ snapshots = [n \in VMNames |-> 0]
    /\ volumes = UNION { {n, scratchVolumeName(n), ciDataVolumeName(n)} :
                           n \in {m \in VMNames : domains[m].state # "absent"} }
    /\ dhcp = { domains[n].mac : n \in {m \in VMNames : domains[m].state # "absent"} }
    /\ op = "none"
    /\ pc = "done"
    /\ vmName = ""
    /\ flag = FALSE
    /\ active = FALSE
    /\ persistent = FALSE
    /\ todo = 0
    /\ err = ""
    /\ calls = << >>
    /\ events = << >>
    /\ subscribed = FALSE
    /\ timeout = "off"
    /\ noise = 0
    /\ first = "none"
    /\ prev = NoOp
    /\ nops = 0
    /\ targets = << >>
    /\ ips = << >>
    /\ tasks = << >>
    /\ gerr = 0
    /\ fault = FALSE
    /\ vmIDs = << >>
    /\ macs = << >>
    /\ NoSession

NextExec ==
    \/ \E names \in Seqs(VMNames, MaxTargets) : VMExecShell(names)
    \/ \E names \in Seqs(VMNames, MaxTargets) : VMExecRsync(names)
    \/ \E names \in Seqs(VMNames, MaxTargets) : VMExecDocker(names)
    \/ getIPs
    \/ ParsePrivateKey
    \/ Go
    \/ \E i \in 1..MaxTargets : TaskEnds(i)
    \/ Wait
    \/ dockerRun
    \/ \E n \in VMNames : DomainStopped(n)

SpecExec == InitRan /\ [][NextExec]_vars

(* VMCommit alone, against VMs that were run.  The deadline of After *)
(* elapses, and vmShutdown takes a case of its select that is ready. *)
NextShutdown ==
    \/ \E n \in VMNames, s \in BOOLEAN : VMCommit(n, s)
    \/ commitDomainIsActive
    \/ LifecycleEvents
    \/ shutdownDomainIsActive
    \/ DomainShutdown
    \/ After
    \/ vmShutdownWait
    \/ StoragePoolLookupByName
    \/ DomainLookupByName
    \/ DomainListAllSnapshots
    \/ DomainSnapshotDelete
    \/ DomainIsActive
    \/ DomainIsPersistent
    \/ rmDHCPEntry
    \/ DomainDestroy
    \/ DomainUndefine
    \/ rmVolumeScratch
    \/ rmVolumeCIData
    \/ \E n \in VMNames : DomainStopped(n)
    \/ \E n \in VMNames : LifecycleEvent(n)
    \/ TimerFired

SpecShutdown ==
    /\ InitRan
    /\ [][NextShutdown]_vars
    /\ WF_vars(TimerFired)
    /\ WF_vars(vmShutdownWait)

----------------------------------------------------------------------------
(* VMSSHSession: the interactive session *)

(* No operation was invoked yet. *)
Idle ==
    /\ op = "none"
    /\ pc = "done"
    /\ vmName = ""
    /\ flag = FALSE
    /\ active = FALSE
    /\ persistent = FALSE
    /\ todo = 0
    /\ err = ""
    /\ calls = << >>
    /\ events = << >>
    /\ subscribed = FALSE
    /\ timeout = "off"
    /\ noise = 0
    /\ first = "none"
    /\ prev = NoOp
    /\ nops = 0
    /\ targets = << >>
    /\ ips = << >>
    /\ tasks = << >>
    /\ gerr = 0
    /\ fault = FALSE

(* What a step of VMSSHSession leaves alone. *)
sessionFrame ==
    UNCHANGED << backendVars, localVars, monitorVars, op, vmName, flag, prev,
                 nops, targets, ips, tasks, gerr, vmIDs, macs, winch >>

(* A return that leaves the terminal as it is. *)
RestoreSkipped == term

(* "defer terminal.Restore(fd, state)": the mode of the terminal after a *)
(* return; state is "none" while the defer is not registered.            *)
Restore == IF state # "none" THEN state ELSE term

(* A return of VMSSHSession: the deferred calls run, last registered *)
(* first: terminal.Restore, then client.Close.                       *)
sessionReturn(ok, e) ==
    /\ term' = Restore
    /\ calls' = IF state # "none" THEN Append(calls, << "Restore", state >>)
                ELSE calls
    /\ client' = IF client = "open" THEN "closed" ELSE client
    /\ UNCHANGED << state, sigChan, pending, notified, listener, werr >>
    /\ Reject(ok, e)

(* VMSSHSession: getSSHClientConfig of the one target, once per process. *)
VMSSHSession(n) ==
    /\ pc = "done" /\ op = "none"
    /\ op' = "VMSSHSession"
    /\ targets' = << n >>
    /\ tasks' = << >>
    /\ gerr' = 0
    /\ calls' = << >>
    /\ UNCHANGED << backendVars, localVars, monitorVars, vmName, flag, prev,
                    nops, vmIDs, macs, sessionVars >>
    /\ \E ok \in BOOLEAN :
        IF ok /\ domains[n].state = "active"
        THEN /\ ips' = << n >>
             /\ Goto("Dial")
        ELSE /\ ips' = << >>
             /\ Reject(ok /\ domains[n].state = "absent",
                       IF ok /\ domains[n].state = "inactive"
                       THEN "cannot exec against VM that is not running"
                       ELSE "could not get domain")

(* VMSSHSession: ssh.Dial and "defer client.Close()". *)
Dial ==
    /\ op = "VMSSHSession" /\ pc = "Dial"
    /\ sessionFrame
    /\ \E ok \in BOOLEAN :
        IF ok
        THEN /\ client' = "open"
             /\ UNCHANGED << term, state, sigChan, pending, notified,
                             listener, werr, calls >>
             /\ Goto("NewSession")
        ELSE sessionReturn(FALSE, "dial failed")

(* A call of VMSSHSession that changes nothing by itself: on an error *)
(* VMSSHSession returns it.                                            *)
sessionCall(next, e) ==
    /\ sessionFrame
    /\ \E ok \in BOOLEAN :
        IF ok
        THEN /\ UNCHANGED << sessionVars, calls >>
             /\ Goto(next)
        ELSE sessionReturn(FALSE, e)

(* VMSSHSession: client.NewSession. *)
NewSession ==
    /\ op = "VMSSHSession" /\ pc = "NewSession"
    /\ sessionCall("MakeRaw", "could not open session")

(* VMSSHSession: terminal.MakeRaw and "defer terminal.Restore". *)
MakeRaw ==
    /\ op = "VMSSHSession" /\ pc = "MakeRaw"
    /\ sessionFrame
    /\ \E ok \in BOOLEAN :
        IF ok
        THEN /\ state' = term
             /\ term' = "raw"
             /\ Called("MakeRaw", term)
             /\ UNCHANGED << client, sigChan, pending, notified, listener,
                             werr >>
             /\ Goto("GetSize")
        ELSE sessionReturn(FALSE, "could not make terminal raw")

(* VMSSHSession: terminal.GetSize. *)
GetSize ==
    /\ op = "VMSSHSession" /\ pc = "GetSize"
    /\ sessionCall("RequestPty", "could not get terminal size")

(* VMSSHSession: session.RequestPty. *)
RequestPty ==
    /\ op = "VMSSHSession" /\ pc = "RequestPty"
    /\ sessionCall("Shell", "could not request pty")

(* VMSSHSession: session.Shell. *)
Shell ==
    /\ op = "VMSSHSession" /\ pc = "Shell"
    /\ sessionCall("Notify", "could not start shell")

(* VMSSHSession: make(chan os.Signal, 1), signal.Notify(sigChan, SIGWINCH) *)
(* and the start of the goroutine that ranges over sigChan.                *)
Notify ==
    /\ op = "VMSSHSession" /\ pc = "Notify"
    /\ sessionFrame
    /\ sigChan' = "open"
    /\ pending' = 0
    /\ notified' = TRUE
    /\ listener' = "ranging"
    /\ Called("Notify", "SIGWINCH")
    /\ UNCHANGED << term, state, client, werr >>
    /\ Goto("session.Wait")

(* VMSSHSession: session.Wait returns when the remote shell has exited or *)
(* the connection dropped.                                                *)
sessionWait ==
    /\ op = "VMSSHSession" /\ pc = "session.Wait"
    /\ sessionFrame
    /\ \E e \in {"", "remote shell failed"} : werr' = e
    /\ UNCHANGED << term, state, client, sigChan, pending, notified, listener,
                    calls >>
    /\ Goto("close")

(* VMSSHSession: close(sigChan); the channel stays registered with *)
(* signal.Notify.                                                  *)
closeSigChan ==
    /\ op = "VMSSHSession" /\ pc = "close"
    /\ sessionFrame
    /\ sigChan' = "closed"
    /\ Called("close", "sigChan")
    /\ UNCHANGED << term, state, client, pending, notified, listener, werr >>
    /\ Goto("wg.Wait")

(* VMSSHSession: wg.Wait returns when the goroutine is done, then *)
(* "return err" with the error of session.Wait.                   *)
wgWait ==
    /\ op = "VMSSHSession" /\ pc = "wg.Wait"
    /\ listener = "exited"
    /\ sessionFrame
    /\ sessionReturn(TRUE, werr)

(* The goroutine: "for s := range sigChan" receives a signal. *)
rangeSigChan ==
    /\ pc # "panic"
    /\ listener = "ranging"
    /\ pending > 0
    /\ pending' = pending - 1
    /\ listener' = "handling"
    /\ UNCHANGED << backendVars, pc, err, fault, calls, localVars,
                    monitorVars, op, vmName, flag, prev, nops, execVars,
                    vmIDs, macs, term, state, client, sigChan, notified,
                    werr, winch >>

(* The goroutine: terminal.GetSize and session.WindowChange, whose errors *)
(* are dropped.                                                           *)
WindowChange ==
    /\ pc # "panic"
    /\ listener = "handling"
    /\ listener' = "ranging"
    /\ UNCHANGED << backendVars, pc, err, fault, calls, localVars,
                    monitorVars, op, vmName, flag, prev, nops, execVars,
                    vmIDs, macs, term, state, client, sigChan, pending,
                    notified, werr, winch >>

(* The goroutine: the range ends when sigChan is closed and drained; *)
(* "defer wg.Done()".                                                *)
wgDone ==
    /\ pc # "panic"
    /\ listener = "ranging"
    /\ sigChan = "closed"
    /\ pending = 0
    /\ listener' = "exited"
    /\ UNCHANGED << backendVars, pc, err, fault, calls, localVars,
                    monitorVars, op, vmName, flag, prev, nops, execVars,
                    vmIDs, macs, term, state, client, sigChan, pending,
                    notified, werr, winch >>

(* The terminal window is resized: the process gets SIGWINCH.  os/signal *)
(* sends it, without blocking, on every channel registered for it; a     *)
(* send on a closed channel panics and ends the process, no deferred     *)
(* call of VMSSHSession runs.                                            *)
SIGWINCH ==
    /\ pc # "panic"
    /\ winch < MaxResize
    /\ winch' = winch + 1
    /\ UNCHANGED << backendVars, calls, localVars, monitorVars, op, vmName,
                    flag, prev, nops, execVars, vmIDs, macs, term, state,
                    client, sigChan, notified, listener, werr >>
    /\ IF notified /\ sigChan = "closed"
       THEN /\ pc' = "panic"
            /\ err' = "send on closed channel"
            /\ fault' = FALSE
            /\ pending' = pending
       ELSE /\ pending' = IF notified /\ pending < 1 THEN pending + 1
                          ELSE pending
            /\ UNCHANGED << pc, err, fault >>

(* The process that runs one interactive session against VMs that were *)
(* run, on a terminal in one of its usual modes.                       *)
InitSession ==
    /\ Idle
    /\ domains \in [VMNames ->
           {NoDomain} \cup
           { [state |-> st, mac |-> qemuMAC(c.VMID)] :
                 st \in {"inactive", "active"}, c \in VMConfigs }]
    /\ \A c \in VMConfigs :
           domains[c.VMName].state # "absent"
               => domains[c.VMName].mac = qemuMAC(c.VMID)
    /\ snapshots = [n \in VMNames |-> 0]
    /\ volumes = UNION { {n, scratchVolumeName(n), ciDataVolumeName(n)} :
                           n \in {m \in VMNames : domains[m].state # "absent"} }
    /\ dhcp = { domains[n].mac : n \in {m \in VMNames : domains[m].state # "absent"} }
    /\ vmIDs = << >>
    /\ macs = << >>
    /\ term \in {"cooked", "cbreak"}
    /\ state = "none"
    /\ client = "none"
    /\ sigChan = "none"
    /\ pending = 0
    /\ notified = FALSE
    /\ listener = "none"
    /\ werr = ""
    /\ winch = 0

NextSession ==
    \/ \E n \in VMNames : VMSSHSession(n)
    \/ Dial
    \/ NewSession
    \/ MakeRaw
    \/ GetSize
    \/ RequestPty
    \/ Shell
    \/ Notify
    \/ sessionWait
    \/ closeSigChan
    \/ wgWait
    \/ rangeSigChan
    \/ WindowChange
    \/ wgDone
    \/ SIGWINCH

SpecSession == InitSession /\ [][NextSession]_vars

----------------------------------------------------------------------------
(* VMRun, VMRm and VMCommit of VMs whose names differ by a volume suffix *)

InitSuffix ==
    /\ Idle
    /\ domains = [n \in SuffixNames |-> NoDomain]
    /\ snapshots = [n \in SuffixNames |-> 0]
    /\ volumes = {}
    /\ dhcp = {}
    /\ vmIDs = << >>
    /\ macs = << >>
    /\ NoSession

NextSuffix ==
    \/ \E c \in SuffixConfigs, w \in BOOLEAN : VMRun(c, w)
    \/ createVMVolume
    \/ createCIData
    \/ createScratchVolume
    \/ DomainDefineXML
    \/ addDHCPEntry
    \/ DomainCreate
    \/ WaitPort
    \/ \E n \in SuffixNames : VMRm(n)
    \/ DomainLookupByName
    \/ DomainListAllSnapshots
    \/ DomainSnapshotDelete
    \/ DomainIsActive
    \/ DomainIsPersistent
    \/ rmDHCPEntry
    \/ DomainDestroy
    \/ DomainUndefine
    \/ rmVolumeScratch
    \/ rmVolumeCIData
    \/ rmVolumeBoot
    \/ \E n \in SuffixNames : VMCommit(n, FALSE)
    \/ commitDomainIsActive
    \/ StoragePoolLookupByName

SpecSuffix == InitSuffix /\ [][NextSuffix]_vars

----------------------------------------------------------------------------
(* qemuMAC on its own *)

(* VM IDs around the byte borders of the 24 bits, and the first ones *)
(* that do not fit.                                                  *)
VMIDs == {0, 1, 255, 256, 65535, 65536, 65537, 16777215, 16777216, 16777217}

(* The VM IDs of the descriptors createVM will be called with. *)
InitMAC ==
    /\ Idle
    /\ domains = [n \in VMNames |-> NoDomain]
    /\ snapshots = [n \in VMNames |-> 0]
    /\ volumes = {}
    /\ dhcp = {}
    /\ vmIDs \in [1..MaxIDs -> VMIDs]
    /\ macs = << >>
    /\ NoSession

(* createVM: "mac := qemuMAC(vmID)" for the next VM ID. *)
createVM_mac ==
    /\ Len(macs) < Len(vmIDs)
    /\ macs' = Append(macs, qemuMAC(vmIDs[Len(macs) + 1]))
    /\ UNCHANGED << backendVars, pc, err, fault, calls, localVars,
                    monitorVars, op, vmName, flag, prev, nops, execVars,
                    vmIDs, sessionVars >>

NextMAC == createVM_mac

SpecMAC == InitMAC /\ [][NextMAC]_vars

----------------------------------------------------------------------------
Next ==
    \/ \E c \in VMConfigs, w \in BOOLEAN : VMRun(c, w)
    \/ createVMVolume
    \/ createCIData
    \/ createScratchVolume
    \/ DomainDefineXML
    \/ addDHCPEntry
    \/ DomainCreate
    \/ WaitPort
    \/ \E n \in VMNames : VMRm(n)
    \/ DomainLookupByName
    \/ DomainListAllSnapshots
    \/ DomainSnapshotDelete
    \/ DomainIsActive
    \/ DomainIsPersistent
    \/ rmDHCPEntry
    \/ DomainDestroy
    \/ DomainUndefine
    \/ rmVolumeScratch
    \/ rmVolumeCIData
    \/ rmVolumeBoot
    \/ \E n \in VMNames, s \in BOOLEAN : VMCommit(n, s)
    \/ commitDomainIsActive
    \/ LifecycleEvents
    \/ shutdownDomainIsActive
    \/ DomainShutdown
    \/ After
    \/ vmShutdownWait
    \/ StoragePoolLookupByName
    \/ \E n \in VMNames : DomainStopped(n)
    \/ \E n \in VMNames : LifecycleEvent(n)
    \/ TimerFired
    \/ \E n \in VMNames : SnapshotCreate(n)

Spec == Init /\ [][Next]_vars

----------------------------------------------------------------------------
(* Properties *)

(* The state-changing backend call c was made by the operation. *)
Made(c) == \E i \in DOMAIN calls : calls[i][1] = c

(* Call c was made, and some call d before it. *)
After2(c, d) ==
    \A i \in DOMAIN calls :
        calls[i][1] = c => \E j \in 1..(i - 1) : calls[j][1] = d

Finished(o) == pc = "done" /\ op = o

PrevOk(o) == prev = [op |-> o, vmName |-> vmName, ok |-> TRUE]

(* C1: in every execution of VMRun the backend calls are made in the order *)
(* define domain, add DHCP entry, start domain: the domain is never        *)
(* started before its DHCP entry has been added, the entry is never added  *)
(* before the domain is defined, and if adding the entry fails the domain  *)
(* is not started.                                                         *)
C1_DefineBindStart ==
    op = "VMRun" =>
        /\ After2("DomainCreate", "addDHCPEntry")
        /\ After2("addDHCPEntry", "DomainDefineXML")
        /\ (pc = "done" /\ err = "could not add DHCP entry") =>
               (~Made("DomainCreate") /\ domains[vmName].state # "active")

C1_Witness ==
    /\ Finished("VMRun") /\ err = ""
    /\ Made("DomainDefineXML") /\ Made("addDHCPEntry") /\ Made("DomainCreate")

(* C2: a VMRm right after a VMRm of the same VM name that returned no     *)
(* error returns no error, unless a backend call fails: the domain and the *)
(* three volumes are absent, every lookup that finds nothing counts as     *)
(* success, and no delete, destroy or undefine call is made.               *)
C2_RmTwice ==
    (Finished("VMRm") /\ PrevOk("VMRm") /\ ~fault) =>
        (err = "" /\ calls = << >>)

C2_Witness == Finished("VMRm") /\ PrevOk("VMRm") /\ ~fault /\ nops > 2

(* C3: VMCommit without shutdown that finds the domain active returns      *)
(* "cannot commit a running VM" and has made no state-changing call.       *)
C3_CommitRunning ==
    (Finished("VMCommit") /\ ~flag /\ active) =>
        (err = "cannot commit a running VM" /\ calls = << >>)

C3_Witness ==
    /\ Finished("VMCommit") /\ ~flag /\ active
    /\ domains[vmName].state = "active"
    /\ vmName \in volumes
(* What vmRmExceptBoot removes of VM n. *)
TornDown(n) ==
    /\ domains[n].state = "absent"
    /\ scratchVolumeName(n) \notin volumes
    /\ ciDataVolumeName(n) \notin volumes
    /\ qemuMAC(VMIDOf(n)) \notin dhcp

BootDeleted == \E i \in DOMAIN calls : calls[i] = << "StorageVolDelete", vmName >>

(* VMCommit with shutdown saw the domain active and asked it to shut down. *)
Waited == Finished("VMCommit") /\ flag /\ Made("DomainShutdown")

TimedOut == err = "timed out waiting for domain to stop"

(* No call of the teardown was made. *)
NoTeardown ==
    \A i \in DOMAIN calls : calls[i][1] \in {"LifecycleEvents", "DomainShutdown"}

(* C4, as claimed: VMCommit with shutdown on an active domain: if the      *)
(* backend emits the stopped event of the domain before the deadline       *)
(* elapses, VMCommit goes on to the teardown (domain, DHCP entry, scratch  *)
(* and cloud-init volume removed) and the boot volume is still there;      *)
(* VMCommit never deletes the boot volume.                                 *)
C4_Original ==
    /\ op = "VMCommit" => ~BootDeleted
    /\ (Waited /\ first \in {"stopped", "stopped,deadline"} /\ ~fault) =>
           (err = "" /\ TornDown(vmName) /\ vmName \in volumes)

(* C4, amended: the same, provided the deadline does not elapse while the  *)
(* stopped event is still waiting in the channel (then the select may take *)
(* either case).                                                           *)
C4_StoppedThenTeardown ==
    /\ op = "VMCommit" => ~BootDeleted
    /\ (Waited /\ first = "stopped" /\ ~fault) =>
           (err = "" /\ TornDown(vmName) /\ vmName \in volumes)

C4_Witness ==
    /\ Waited /\ first = "stopped" /\ ~fault
    /\ Made("DomainUndefine")
    /\ << "StorageVolDelete", scratchVolumeName(vmName) >> = calls[Len(calls) - 1]

(* C5, as claimed: VMCommit with shutdown on an active domain: if no       *)
(* stopped event of the domain arrives before the deadline elapses,        *)
(* VMCommit returns the timeout error and makes no call of the teardown.   *)
C5_Original ==
    (Waited /\ first \in {"deadline", "deadline,stopped"}) =>
        (TimedOut /\ NoTeardown)

(* C5, amended: the same, provided no stopped event of the domain arrives  *)
(* either between the deadline and the select that takes it (then the      *)
(* select may take either case).                                           *)
C5_DeadlineThenError ==
    (Waited /\ first = "deadline") => (TimedOut /\ NoTeardown)

C5_Witness ==
    /\ Waited /\ first = "deadline" /\ TimedOut
    /\ domains[vmName].state = "active"

(* C8: a VMRun that returned no error followed by a VMRm of the same VM    *)
(* that returned no error leaves no domain of that name, no boot, scratch  *)
(* or cloud-init volume of the VM and no DHCP entry for its MAC.           *)
C8_RunRm ==
    (Finished("VMRm") /\ err = "" /\ PrevOk("VMRun")) =>
        (TornDown(vmName) /\ vmName \notin volumes)

C8_Witness ==
    /\ Finished("VMRm") /\ err = "" /\ PrevOk("VMRun")
    /\ Made("rmDHCPEntry") /\ Made("DomainDestroy") /\ Made("DomainUndefine")
    /\ BootDeleted

(* C9, as claimed: a VMCommit right after a VMCommit of the same VM name   *)
(* that returned no error returns no error, unless a backend call fails.   *)
C9_Original ==
    (Finished("VMCommit") /\ PrevOk("VMCommit") /\ ~fault) => err = ""

(* C9, amended: VMCommit returns every error of its own domain lookup, not *)
(* found too: a VMCommit right after a VMCommit of the same VM name that   *)
(* returned no error returns "could not get domain" and makes no           *)
(* state-changing call.                                                    *)
C9_SecondCommitFails ==
    (Finished("VMCommit") /\ PrevOk("VMCommit")) =>
        (err = "could not get domain" /\ calls = << >>)

C9_Witness ==
    /\ Finished("VMCommit") /\ PrevOk("VMCommit") /\ ~fault
    /\ vmName \in volumes
Execs == {"VMExecShell", "VMExecRsync", "VMExecDocker"}

(* C6: when VMExecShell or VMExecRsync has launched its tasks and returns, *)
(* it launched one task per address, every task has ended by itself       *)
(* (none is still running, whatever the order in which the tasks ended),   *)
(* and it returns an error exactly if some task failed.                    *)
C6_AllTasksEnd ==
    (pc = "done" /\ op \in {"VMExecShell", "VMExecRsync"} /\ tasks # << >>) =>
        /\ Len(tasks) = Len(ips)
        /\ \A i \in DOMAIN tasks : tasks[i] \in {"completed", "failed"}
        /\ (\E i \in DOMAIN tasks : tasks[i] = "failed") <=> (err # "")
        /\ gerr # 0 => tasks[gerr] = "failed"

C6_Witness ==
    /\ pc = "done" /\ op = "VMExecShell" /\ err # ""
    /\ Len(tasks) > 1
    /\ tasks[1] = "failed"
    /\ tasks[Len(tasks)] = "completed"

(* C7: the executor launches remote work only when every target has been  *)
(* resolved: if it returns with a target unresolved it returns an error    *)
(* and has launched no task and no container, also for the targets         *)
(* resolved before the failing one.                                        *)
C7_ResolveAllFirst ==
    op \in Execs =>
        /\ (tasks # << >> \/ Made("Go") \/ Made("dockerRun")) =>
               Len(ips) = Len(targets)
        /\ (pc = "done" /\ Len(ips) < Len(targets)) =>
               (err # "" /\ tasks = << >>)

C7_Witness ==
    /\ pc = "done" /\ op \in Execs
    /\ Len(ips) > 0 /\ Len(ips) < Len(targets)
    /\ Made("findVMIP")

(* The shutdown monitor is past its activity check and found the domain *)
(* active.                                                              *)
Monitoring ==
    /\ op = "VMCommit"
    /\ pc \in {"DomainShutdown", "After", "select"}
    /\ active

(* C10: vmShutdown opens the event channel before it checks whether the   *)
(* domain is active, so no stopped event is lost: whenever the monitor has *)
(* seen the domain active and the domain has stopped since, the stopped    *)
(* event is in the monitor's channel; and the monitor never waits forever. *)
C10_NoLostStop ==
    /\ [](op = "VMCommit" /\ pc = "shutdown_DomainIsActive" => subscribed)
    /\ [](Monitoring => subscribed)
    /\ []((Monitoring /\ domains[vmName].state # "active") =>
              \E i \in DOMAIN events : events[i] = Stopped(vmName))
    /\ (pc = "select") ~> (pc # "select")

C10_Witness ==
    /\ Monitoring /\ pc = "select"
    /\ domains[vmName].state = "inactive"
    /\ events # << >> /\ Head(events) = Stopped(vmName)

(* The state-changing calls VMRun makes. *)
RunCalls ==
    {"StorageVolCreateXML", "DomainDefineXML", "addDHCPEntry", "DomainCreate"}

(* The resource that the call created is in the backend. *)
Exists(call) ==
    CASE call[1] = "StorageVolCreateXML" -> call[2] \in volumes
      [] call[1] = "DomainDefineXML" -> domains[call[2]].state # "absent"
      [] call[1] = "addDHCPEntry" -> qemuMAC(VMIDOf(call[2])) \in dhcp
      [] call[1] = "DomainCreate" -> domains[call[2]].state # "absent"
      [] OTHER -> FALSE

(* C11: VMRun performs no rollback: at every point of a VMRun, and after   *)
(* it returned, every resource its calls created so far is still in the    *)
(* backend, VMRun makes no delete, destroy, undefine or unbind call, and   *)
(* a VMRun that returns before its six creating calls were made returns an *)
(* error.                                                                  *)
C11_NoRollback ==
    op = "VMRun" =>
        /\ \A i \in DOMAIN calls : calls[i][1] \in RunCalls /\ Exists(calls[i])
        /\ (pc = "done" /\ Len(calls) < 6) => err # ""

C11_Witness ==
    /\ Finished("VMRun")
    /\ err = "could create create (start) domain"
    /\ Len(calls) = 5
    /\ {vmName, ciDataVolumeName(vmName), scratchVolumeName(vmName)}
           \subseteq volumes
    /\ domains[vmName].state = "inactive"
    /\ qemuMAC(VMIDOf(vmName)) \in dhcp

(* The step makes the state-changing call c. *)
Makes(c) ==
    /\ Len(calls') = Len(calls) + 1
    /\ calls'[Len(calls')][1] = c

(* C12: in the teardown of an existing domain (VMRm and VMCommit, through  *)
(* vmRmExceptBoot) DomainDestroy and DomainUndefine are called only when   *)
(* the domain has no snapshot left and its DHCP entry is removed, the      *)
(* removal of the DHCP entry comes before both in the order of calls, and  *)
(* when deleting the snapshots or removing the DHCP entry fails neither    *)
(* DomainDestroy nor DomainUndefine is called.                             *)
C12_SnapshotsUnbindFirst ==
    /\ [](op \in {"VMRm", "VMCommit"} =>
            /\ After2("DomainDestroy", "rmDHCPEntry")
            /\ After2("DomainUndefine", "rmDHCPEntry")
            /\ (pc = "done" /\ err \in {"could not list snapshots",
                                         "could not delete snapshot",
                                         "could not remove DHCP entry"}) =>
                   (~Made("DomainDestroy") /\ ~Made("DomainUndefine")))
    /\ [][(Makes("DomainDestroy") \/ Makes("DomainUndefine")) =>
             (snapshots[vmName] = 0 /\ domains[vmName].mac \notin dhcp)]_vars

C12_Witness ==
    /\ op = "VMRm" /\ pc = "rmVolume_scratch"
    /\ Made("DomainSnapshotDelete")
    /\ calls[Len(calls) - 2][1] = "rmDHCPEntry"
    /\ calls[Len(calls) - 1][1] = "DomainDestroy"
    /\ calls[Len(calls)][1] = "DomainUndefine"

(* The VM ID fits in 24 bits. *)
InRange(vmID) == vmID < 2^24

(* The number that the three trailing bytes of a MAC encode, big-endian. *)
Trailing(mac) == mac[4] * 65536 + mac[5] * 256 + mac[6]

(* C13: for VM IDs that fit in 24 bits, qemuMAC returns the fixed prefix    *)
(* 52:54:00 followed by the ID in three bytes, most significant first;      *)
(* deriving the MAC of the same ID again returns the same MAC, and two      *)
(* different IDs never get the same MAC.                                    *)
C13_MACInjective ==
    \A i, j \in DOMAIN macs :
        (InRange(vmIDs[i]) /\ InRange(vmIDs[j])) =>
            /\ Len(macs[i]) = 6
            /\ SubSeq(macs[i], 1, 3) = << 82, 84, 0 >>
            /\ \A k \in 4..6 : macs[i][k] < 256
            /\ Trailing(macs[i]) = vmIDs[i]
            /\ (vmIDs[i] = vmIDs[j]) <=> (macs[i] = macs[j])

C13_Witness ==
    /\ Len(macs) = 3
    /\ vmIDs[1] = 65537 /\ vmIDs[2] = 65537 /\ vmIDs[3] = 1
    /\ macs[1] = macs[2] /\ macs[1] # macs[3]
    /\ macs[1] = << 82, 84, 0, 1, 0, 1 >>

(* getIPs found a target that is not running. *)
NotRunning ==
    /\ pc = "done" /\ op \in Execs
    /\ err = "cannot exec against VM that is not running"

(* C14, as claimed: when the targets of the executor contain one that is   *)
(* not running, the resolution fails and no lease query was made for any   *)
(* target, wherever the target that is not running is in the list.         *)
C14_Original == NotRunning => (~Made("findVMIP") /\ ips = << >>)

(* C14, amended: getIPs resolves the targets in order and stops at the     *)
(* first one that is not running: the executor returns the error and       *)
(* launches nothing, no lease query is made for that target or for a       *)
(* target after it, while every target before it has been queried.         *)
C14_StopsAtInactive ==
    NotRunning =>
        /\ tasks = << >> /\ ~Made("Go") /\ ~Made("dockerRun")
        /\ Len(ips) < Len(targets)
        /\ domains[targets[Len(ips) + 1]].state = "inactive"
        /\ calls = [i \in 1..Len(ips) |-> << "findVMIP", targets[i] >>]

C14_Witness ==
    /\ NotRunning
    /\ Len(targets) = 2 /\ Len(ips) = 1
    /\ calls = << << "findVMIP", targets[1] >> >>
    /\ domains[targets[1]].state = "active"
    /\ domains[targets[2]].state = "inactive"

(* The step is the monitor's receive of the next event of its channel. *)
Receives ==
    /\ op = "VMCommit" /\ pc = "select"
    /\ events # << >>
    /\ events' = Tail(events)
    /\ subscribed'

(* C15: while vmShutdown waits, an event of another domain, or an event of *)
(* the target that is not "stopped", is dropped and the wait goes on: the  *)
(* monitor stays in its select with the domain still taken as active and   *)
(* with the deadline as it was; the wait ends in success only by the       *)
(* target's stopped event; and the deadline is armed by After only, before *)
(* the wait, and never armed again once it has fired.                      *)
C15_OtherEventsIgnored ==
    /\ [][(Receives /\ Head(events) # Stopped(vmName)) =>
             (pc' = "select" /\ active' /\ timeout' = timeout /\ err' = "")]_vars
    /\ [][(op = "VMCommit" /\ pc = "select" /\ active /\ ~active') =>
             (Receives /\ Head(events) = Stopped(vmName))]_vars
    /\ [][(pc = "select" /\ pc' = "StoragePoolLookupByName") => ~active]_vars
    /\ [][(timeout' = "armed" /\ timeout # "armed") => pc = "After"]_vars

C15_Witness ==
    /\ op = "VMCommit" /\ pc = "select" /\ active
    /\ noise > 0 /\ events = << >>
    /\ \E n \in VMNames : n # vmName /\ domains[n].state = "inactive"
    /\ timeout = "armed"

PrevFailed(o) == prev = [op |-> o, vmName |-> vmName, ok |-> FALSE]

(* A call of the teardown returned an error other than not found: it    *)
(* failed in the backend, or the backend refused to destroy or undefine *)
(* the domain.                                                          *)
BackendError ==
    \/ fault
    \/ err \in {"could not destroy domain", "could not undefine domain"}

(* C16: a VMRm right after a VMRun of the same VM name that returned an   *)
(* error, at whatever step, returns no error if none of its backend calls *)
(* returns an error, and leaves no domain of that name, no boot, scratch  *)
(* or cloud-init volume of the VM and no DHCP entry for its MAC.          *)
C16_RmAfterFailedRun ==
    (Finished("VMRm") /\ PrevFailed("VMRun") /\ ~BackendError) =>
        (err = "" /\ TornDown(vmName) /\ vmName \notin volumes)

C16_Witness ==
    /\ Finished("VMRm") /\ PrevFailed("VMRun") /\ err = ""
    /\ nops = 2
    /\ calls = << << "StorageVolDelete", ciDataVolumeName(vmName) >>,
                  << "StorageVolDelete", vmName >> >>

(* C17: once MakeRaw has put the terminal into raw mode, every return of   *)
(* VMSSHSession, the error returns after GetSize, RequestPty, Shell and    *)
(* session.Wait included, ends with terminal.Restore of the state MakeRaw  *)
(* returned: the terminal is raw for the duration of the call and in its   *)
(* previous mode once the call has returned.                               *)
C17_RawRestored ==
    op = "VMSSHSession" =>
        /\ (pc = "done" /\ state # "none") =>
               /\ term = state
               /\ calls[Len(calls)] = << "Restore", state >>
               /\ calls[1] = << "MakeRaw", state >>
        /\ pc = "done" => term # "raw"
        /\ (pc \notin {"done", "panic"} /\ state # "none") => term = "raw"

C17_Witness ==
    /\ Finished("VMSSHSession")
    /\ err = "could not request pty"
    /\ state = "cbreak" /\ term = "cbreak"
    /\ client = "closed"

(* C18, as claimed: when the session has ended the resize goroutine is     *)
(* done before VMSSHSession returns, and no SIGWINCH is ever sent on       *)
(* sigChan after sigChan was closed.                                       *)
C18_Original ==
    /\ (Finished("VMSSHSession") /\ sigChan # "none") =>
           (sigChan = "closed" /\ listener = "exited")
    /\ pc # "panic"

(* The names of the volumes of VM n. *)
VolumesOf(n) == {n, scratchVolumeName(n), ciDataVolumeName(n)}

(* C19, as claimed: VMRm and VMCommit of a VM delete no volume of another  *)
(* VM whose domain exists, also when the name of one is the name of the    *)
(* other with the suffix "-scratch" or "-cidata".                          *)
C19_Original ==
    op \in {"VMRm", "VMCommit"} =>
        \A n \in (DOMAIN domains) \ {vmName} :
            domains[n].state # "absent" =>
                \A i \in DOMAIN calls :
                    calls[i][1] = "StorageVolDelete" =>
                        calls[i][2] \notin VolumesOf(n)

(* C20: a VMRm right after a VMRm of the same VM name that returned an    *)
(* error, at whatever step, returns no error if none of its backend calls *)
(* returns an error, and completes the teardown: no domain of that name,  *)
(* no boot, scratch or cloud-init volume of the VM and no DHCP entry for  *)
(* its MAC are left.                                                      *)
C20_RmResumes ==
    (Finished("VMRm") /\ PrevFailed("VMRm") /\ ~BackendError) =>
        (err = "" /\ TornDown(vmName) /\ vmName \notin volumes)

C20_Witness ==
    /\ Finished("VMRm") /\ PrevFailed("VMRm") /\ err = ""
    /\ nops = 3
    /\ Made("rmDHCPEntry") /\ Made("DomainDestroy") /\ Made("DomainUndefine")
    /\ BootDeleted

=============================================================================
